---------------------------- MODULE Spec2Model ----------------------------
(***************************************************************************)
(* A model of skills/gemini-review/scripts/gemini_review.py: the effort    *)
(* estimator, the response normalizer, the report renderer and the review  *)
(* orchestrator with its exit codes.                                        *)
(*                                                                          *)
(* Text is a sequence of symbols.  A symbol stands for one lexeme of the    *)
(* reply: the fence delimiter (three backticks), the tag json, a white     *)
(* space character, a JSON punctuation mark, a double quote, a digit, the   *)
(* literal null, or a word.  Regular-expression search, strip(), the JSON   *)
(* decoder and json.dumps all work on these sequences.                      *)
(***************************************************************************)
EXTENDS Integers, Sequences, FiniteSets, TLC

(***************************************************************************)
(* Bounds of the model.                                                     *)
(***************************************************************************)
MaxIssues == 2
MaxFiles == 2
MaxLines == 1000
MaxFileCount == 3
MaxClassMarkers == 3

Min(S) == CHOOSE x \in S : \A y \in S : x <= y
Max(S) == CHOOSE x \in S : \A y \in S : x >= y

(***************************************************************************)
(* Lexical classes of the symbols.                                          *)
(***************************************************************************)
Fence == "FENCE"
Tag == "json"
Quote == "\""
Whitespace == {" ", "\n"}
DigitSyms == <<"0", "1", "2", "3", "4", "5", "6", "7", "8", "9">>
IsDigit(c) == \E n \in 1..10 : DigitSyms[n] = c
DigitVal(c) == (CHOOSE n \in 1..10 : DigitSyms[n] = c) - 1

(***************************************************************************)
(* JSON values as json.loads builds them.  An object keeps its members in   *)
(* insertion order, as a Python dict does.                                  *)
(***************************************************************************)
JNull == [k |-> "null", v |-> <<>>]
JNum(n) == [k |-> "num", v |-> <<n>>]
JStr(s) == [k |-> "str", v |-> s]
JArr(es) == [k |-> "arr", v |-> es]
JObj(ms) == [k |-> "obj", v |-> ms]
Word(w) == JStr(<<w>>)

IsObj(t) == t.k = "obj"
IsArr(t) == t.k = "arr"
IsStr(t) == t.k = "str"
IsNum(t) == t.k = "num"
IsNull(t) == t.k = "null"
IsWord(t, w) == t.k = "str" /\ t.v = <<w>>

\* dict: key in d
Has(o, key) == \E i \in 1..Len(o.v) : o.v[i].key = key
\* dict: d[key]
Get(o, key) == o.v[CHOOSE i \in 1..Len(o.v) : o.v[i].key = key].val
\* dict: d[key] = val (a present key keeps its place)
Put(o, key, val) ==
    IF Has(o, key)
    THEN JObj([i \in 1..Len(o.v) |->
                 IF o.v[i].key = key THEN [key |-> key, val |-> val] ELSE o.v[i]])
    ELSE JObj(Append(o.v, [key |-> key, val |-> val]))
\* dict.get(key, default)
GetOr(o, key, default) == IF Has(o, key) THEN Get(o, key) ELSE default

(***************************************************************************)
(* re.search of the pattern FENCE (json)? ws* (group 1, lazy) ws* FENCE:    *)
(* the leftmost match starts at the first fence and, the group being lazy,  *)
(* ends at the next one; the optional tag and the white space on both      *)
(* sides stay outside group 1.                                              *)
(***************************************************************************)
\* the first position from p on that holds the symbol c; Len(text) + 1 if
\* there is none
Find(text, p, c) ==
    IF \E i \in p..Len(text) : text[i] = c
    THEN CHOOSE i \in p..Len(text) :
             text[i] = c /\ \A j \in p..(i - 1) : text[j] # c
    ELSE Len(text) + 1

\* the first position from p on that holds no white space
RECURSIVE SkipWs(_, _)
SkipWs(text, p) ==
    IF p > Len(text) \/ text[p] \notin Whitespace THEN p ELSE SkipWs(text, p + 1)

\* the last position up to p that holds no white space; 0 if there is none
RECURSIVE SkipWsBack(_, _)
SkipWsBack(text, p) ==
    IF p < 1 \/ text[p] \notin Whitespace THEN p ELSE SkipWsBack(text, p - 1)

re_search(text) ==
    LET a == Find(text, 1, Fence)
        b == Find(text, a + 1, Fence)
    IN  IF b > Len(text)
        THEN [matched |-> FALSE, group1 |-> <<>>]
        ELSE LET s1 == IF a + 1 < b /\ text[a + 1] = Tag THEN a + 2 ELSE a + 1
                 s2 == SkipWs(text, s1)
                 e == SkipWsBack(text, b - 1)
             IN  [matched |-> TRUE,
                  group1 |-> IF e < s2 THEN <<>> ELSE SubSeq(text, s2, e)]

\* str.strip()
strip(text) ==
    LET first == SkipWs(text, 1)
        last == SkipWsBack(text, Len(text))
    IN  IF first > Len(text) THEN <<>> ELSE SubSeq(text, first, last)

(***************************************************************************)
(* json.loads: a recursive-descent decoder.  Each parser returns            *)
(* [ok, val, pos]: whether a value was read, the value, and the position    *)
(* after it.                                                                *)
(***************************************************************************)
ParseFail == [ok |-> FALSE, val |-> JNull, pos |-> 0]
ParseOk(val, pos) == [ok |-> TRUE, val |-> val, pos |-> pos]

\* a string literal starting at the quote at p: no escapes, and a raw
\* control character (the newline) is refused
ParseString(text, p) ==
    LET q == Find(text, p + 1, Quote) IN
    IF q > Len(text) THEN ParseFail
    ELSE IF \E i \in (p + 1)..(q - 1) : text[i] = "\n" THEN ParseFail
    ELSE ParseOk(JStr(SubSeq(text, p + 1, q - 1)), q + 1)

RECURSIVE NumberValue(_, _, _)
NumberValue(text, p, q) ==
    IF q < p THEN 0 ELSE 10 * NumberValue(text, p, q - 1) + DigitVal(text[q])

RECURSIVE SkipDigits(_, _)
SkipDigits(text, p) ==
    IF p > Len(text) \/ ~IsDigit(text[p]) THEN p ELSE SkipDigits(text, p + 1)

\* NUMBER_RE: 0, or a nonzero digit followed by digits
ParseNumber(text, p) ==
    IF text[p] = "0" THEN ParseOk(JNum(0), p + 1)
    ELSE LET e == SkipDigits(text, p) - 1
         IN  ParseOk(JNum(NumberValue(text, p, e)), e + 1)

RECURSIVE ParseValue(_, _)
RECURSIVE ParseMembers(_, _, _)
RECURSIVE ParseElements(_, _, _)

ParseValue(text, p) ==
    LET c == IF p > Len(text) THEN "" ELSE text[p]
        q == SkipWs(text, p + 1)
        empty == q <= Len(text) /\ text[q] = (IF c = "{" THEN "}" ELSE "]")
    IN  CASE c = "{" /\ ~empty -> ParseMembers(text, q, JObj(<<>>))
          [] c = "[" /\ ~empty -> ParseElements(text, q, <<>>)
          [] c = "{" /\ empty -> ParseOk(JObj(<<>>), q + 1)
          [] c = "[" /\ empty -> ParseOk(JArr(<<>>), q + 1)
          [] c = Quote -> ParseString(text, p)
          [] IsDigit(c) -> ParseNumber(text, p)
          [] c = "null" -> ParseOk(JNull, p + 1)
          [] OTHER -> ParseFail

\* "key" : value, then a comma and the next member, or the closing brace
ParseMembers(text, p, acc) ==
    LET key == ParseString(text, p)
        c == SkipWs(text, key.pos)
        val == ParseValue(text, SkipWs(text, c + 1))
        r == SkipWs(text, val.pos)
        acc2 == Put(acc, key.val.v, val.val)
        read == /\ p <= Len(text) /\ text[p] = Quote
                /\ key.ok
                /\ c <= Len(text) /\ text[c] = ":"
                /\ val.ok
                /\ r <= Len(text)
    IN  IF read /\ text[r] = "," THEN ParseMembers(text, SkipWs(text, r + 1), acc2)
        ELSE IF read /\ text[r] = "}" THEN ParseOk(acc2, r + 1)
        ELSE ParseFail

\* value, then a comma and the next element, or the closing bracket
ParseElements(text, p, acc) ==
    LET val == ParseValue(text, p)
        r == SkipWs(text, val.pos)
        acc2 == Append(acc, val.val)
        read == val.ok /\ r <= Len(text)
    IN  IF read /\ text[r] = "," THEN ParseElements(text, SkipWs(text, r + 1), acc2)
        ELSE IF read /\ text[r] = "]" THEN ParseOk(JArr(acc2), r + 1)
        ELSE ParseFail

\* json.loads(text): one value, white space around it, nothing after it
json_loads(text) ==
    LET val == ParseValue(text, SkipWs(text, 1)) IN
    IF ~val.ok THEN ParseFail
    ELSE IF SkipWs(text, val.pos) <= Len(text) THEN ParseFail
    ELSE val

(***************************************************************************)
(* Python's operations on a decoded value.  The outcome of a call is a      *)
(* returned value or a raised exception.                                    *)
(***************************************************************************)
Return(val) == [status |-> "return", exc |-> "", data |-> val]
Raise(exc) == [status |-> "raise", exc |-> exc, data |-> JNull]
Returned(r) == r.status = "return"
Raised(r) == r.status = "raise"

IsSubseq(needle, hay) ==
    \E i \in 0..(Len(hay) - Len(needle)) : SubSeq(hay, i + 1, i + Len(needle)) = needle

\* `w in t` is defined on a dict (a key), a list (an element) and a str (a
\* substring); on an int or None it raises TypeError
Container(t) == t.k \in {"obj", "arr", "str"}
PyContains(t, w) ==
    CASE IsObj(t) -> Has(t, <<w>>)
      [] IsArr(t) -> \E i \in 1..Len(t.v) : IsWord(t.v[i], w)
      [] IsStr(t) -> IsSubseq(<<w>>, t.v)
      [] OTHER -> FALSE

\* iteration: the elements of a list, the keys of a dict, the characters of
\* a str; an int or None is not iterable
Iterable(t) == t.k \in {"obj", "arr", "str"}
Items(t) ==
    CASE IsArr(t) -> t.v
      [] IsObj(t) -> [i \in 1..Len(t.v) |-> JStr(t.v[i].key)]
      [] IsStr(t) -> [i \in 1..Len(t.v) |-> Word(t.v[i])]
      [] OTHER -> <<>>

(***************************************************************************)
(* parse_json_response, step by step.                                       *)
(***************************************************************************)
RawExcerptLimit == 500
PositiveShown == 3

DefaultSummary ==
    JObj(<< [key |-> <<"verdict">>, val |-> Word("request_changes")],
            [key |-> <<"overview">>, val |-> Word("Review completed")],
            [key |-> <<"stats">>, val |-> JObj(<<>>)] >>)

\* the dict returned when json.loads raises JSONDecodeError
JsonParseError(text) ==
    JObj(<< [key |-> <<"error">>, val |-> Word("JSON_PARSE_ERROR")],
            [key |-> <<"message">>, val |-> Word("Failed to parse response")],
            [key |-> <<"raw_response">>,
             val |-> JStr(SubSeq(text, 1, Min({Len(text), RawExcerptLimit})))] >>)

\* lines 159-164: the interior of the first fenced block if there is one,
\* then strip()
StripFence(response_text) ==
    LET json_match == re_search(response_text)
    IN  strip(IF json_match.matched THEN json_match.group1 ELSE response_text)

\* if key not in data: data[key] = default
EnsureField(data, w, default) ==
    IF ~Container(data) THEN Raise("TypeError")
    ELSE IF PyContains(data, w) THEN Return(data)
    ELSE IF IsObj(data) THEN Return(Put(data, <<w>>, default))
    ELSE Raise("TypeError")

\* lines 170-175
ValidateRequiredFields(data) ==
    LET r1 == EnsureField(data, "summary", DefaultSummary) IN
    IF Raised(r1) THEN r1
    ELSE LET r2 == EnsureField(r1.data, "issues", JArr(<<>>)) IN
         IF Raised(r2) THEN r2
         ELSE EnsureField(r2.data, "positive_aspects", JArr(<<>>))

\* lines 178-180: for i, issue in enumerate(data["issues"], 1)
BackfillIssue(issue, i) ==
    IF ~Container(issue) THEN Raise("TypeError")
    ELSE IF PyContains(issue, "id") THEN Return(issue)
    ELSE IF IsObj(issue) THEN Return(Put(issue, <<"id">>, JNum(i)))
    ELSE Raise("TypeError")

EnsureIds(data) ==
    IF ~IsObj(data) THEN Raise("TypeError")
    ELSE LET issues == Get(data, <<"issues">>) IN
         IF ~Iterable(issues) THEN Raise("TypeError")
         ELSE LET items == Items(issues)
                  done == [i \in 1..Len(items) |-> BackfillIssue(items[i], i)]
              IN  IF \E i \in 1..Len(items) : Raised(done[i]) THEN Raise("TypeError")
                  ELSE IF IsArr(issues)
                       THEN Return(Put(data, <<"issues">>,
                                       JArr([i \in 1..Len(items) |-> done[i].data])))
                       ELSE Return(data)

\* sum(1 for i in issues if i.get(field) == w)
RECURSIVE CountWhere(_, _, _)
CountWhere(items, field, w) ==
    IF items = <<>> THEN 0
    ELSE (IF IsWord(GetOr(Head(items), <<field>>, JNull), w) THEN 1 ELSE 0)
         + CountWhere(Tail(items), field, w)

\* a variant that computes the stats only when the model supplied none
WriteStatsIfMissing(stats, items) ==
    IF Has(stats, <<"blocking">>) THEN stats
    ELSE Put(Put(Put(stats,
                <<"blocking">>, JNum(CountWhere(items, "severity", "blocking"))),
            <<"warning">>, JNum(CountWhere(items, "severity", "non-blocking"))),
        <<"suggestion">>, JNum(CountWhere(items, "type", "suggestion")))

\* lines 186-188: the three counts written into the stats dict
WriteStats(stats, items) ==
    Put(Put(Put(stats,
                <<"blocking">>, JNum(CountWhere(items, "severity", "blocking"))),
            <<"warning">>, JNum(CountWhere(items, "severity", "non-blocking"))),
        <<"suggestion">>, JNum(CountWhere(items, "type", "suggestion")))

\* lines 183-188
CalculateStats(data) ==
    LET summary == Get(data, <<"summary">>)
        r == EnsureField(summary, "stats", JObj(<<>>))
    IN  IF Raised(r) THEN r
        ELSE IF ~IsObj(r.data) THEN Raise("TypeError")
        ELSE LET stats == Get(r.data, <<"stats">>)
                 items == Items(Get(data, <<"issues">>))
             IN  IF \E i \in 1..Len(items) : ~IsObj(items[i])
                 THEN Raise("AttributeError")
                 ELSE IF ~IsObj(stats) THEN Raise("TypeError")
                 ELSE Return(Put(data, <<"summary">>,
                                 Put(r.data, <<"stats">>, WriteStats(stats, items))))

\* lines 156-196; only json.JSONDecodeError is caught
parse_json_response(response_text) ==
    LET text == StripFence(response_text)
        loaded == json_loads(text)
    IN  IF ~loaded.ok THEN Return(JsonParseError(text))
        ELSE LET r1 == ValidateRequiredFields(loaded.val) IN
             IF Raised(r1) THEN r1
             ELSE LET r2 == EnsureIds(r1.data) IN
                  IF Raised(r2) THEN r2
                  ELSE CalculateStats(r2.data)

(***************************************************************************)
(* format_interactive_output.  The report is modelled by what decides its   *)
(* structure: which branch rendered it, the verdict line, the positions (in *)
(* result["issues"]) of the entries of each of the three boxes, and the     *)
(* selection hint.  An exception raised while rendering is an outcome.      *)
(***************************************************************************)
NoReport ==
    [kind |-> "none", verdict |-> "", blocking |-> <<>>, warning |-> <<>>,
     suggestion |-> <<>>, hint |-> FALSE]
Rendered(rep) == [status |-> "return", exc |-> "", report |-> rep]
RenderRaise(exc) == [status |-> "raise", exc |-> exc, report |-> NoReport]

\* x[:n] is defined on a str and a list
Sliceable(t) == t.k \in {"str", "arr"}
\* bool(x)
Truthy(t) ==
    CASE IsNull(t) -> FALSE
      [] IsNum(t) -> t.v # <<0>>
      [] OTHER -> t.v # <<>>
\* sep.join(x): x iterable, every item a str
Joinable(t) == Iterable(t) /\ \A i \in 1..Len(Items(t)) : IsStr(Items(t)[i])
\* the first n items of a sliceable value, as a value of the same type
FirstN(t, n) == [k |-> t.k, v |-> SubSeq(t.v, 1, Min({n, Len(t.v)}))]

\* the positions of the items that satisfy the comprehension's condition,
\* in order
Positions(S) ==
        [n \in 1..Cardinality(S) |->
           CHOOSE i \in S : Cardinality({j \in S : j <= i}) = n]

\* line 341
IsBlockingIssue(i) == IsWord(GetOr(i, <<"severity">>, JNull), "blocking")
\* line 342
IsWarningIssue(i) ==
    /\ IsWord(GetOr(i, <<"severity">>, JNull), "non-blocking")
    /\ ~IsWord(GetOr(i, <<"type">>, JNull), "suggestion")
\* line 343
IsSuggestionIssue(i) == IsWord(GetOr(i, <<"type">>, JNull), "suggestion")

\* lines 350-359: one entry of the blocking box
BlockingEntryOk(issue) ==
    /\ Sliceable(GetOr(issue, <<"title">>, Word("Issue")))
    /\ Has(issue, <<"id">>)
    /\ Sliceable(GetOr(issue, <<"suggested_fix">>, JStr(<<>>)))
\* lines 368-374 and 383-385: one entry of the warning or suggestion box
TitledEntryOk(issue, placeholder) ==
    /\ Sliceable(GetOr(issue, <<"title">>, Word(placeholder)))
    /\ Has(issue, <<"id">>)

\* lines 296-315
FormatError(result) ==
    LET error == Get(result, <<"error">>) IN
    IF IsWord(error, "NO_API_KEY")
    THEN Rendered([NoReport EXCEPT !.kind = "no_api_key"])
    ELSE IF IsWord(error, "JSON_PARSE_ERROR")
    THEN IF Has(result, <<"raw_response">>)
            /\ ~IsStr(Get(result, <<"raw_response">>))
         THEN RenderRaise("TypeError")
         ELSE IF ~IsStr(GetOr(result, <<"message">>, Word("Unknown error")))
         THEN RenderRaise("TypeError")
         ELSE Rendered([NoReport EXCEPT !.kind = "parse_error"])
    ELSE Rendered([NoReport EXCEPT !.kind = "error"])

\* lines 317-397
FormatReview(result) ==
    LET meta == GetOr(result, <<"meta">>, JObj(<<>>))
        summary == GetOr(result, <<"summary">>, JObj(<<>>))
        issues == GetOr(result, <<"issues">>, JArr(<<>>))
        positive == GetOr(result, <<"positive_aspects">>, JArr(<<>>))
    IN
    IF ~IsObj(meta) THEN RenderRaise("AttributeError")
    ELSE IF ~IsObj(summary) THEN RenderRaise("AttributeError")
    ELSE IF ~Joinable(GetOr(meta, <<"files">>, JArr(<<>>))) THEN RenderRaise("TypeError")
    ELSE
    LET verdict == GetOr(summary, <<"verdict">>, Word("request_changes"))
        stats == GetOr(summary, <<"stats">>, JObj(<<>>))
        approved == IsWord(verdict, "approve")
    IN
    IF ~approved /\ ~IsObj(stats) THEN RenderRaise("AttributeError")
    ELSE IF ~Iterable(issues) THEN RenderRaise("TypeError")
    ELSE
    LET items == Items(issues) IN
    IF \E i \in 1..Len(items) : ~IsObj(items[i]) THEN RenderRaise("AttributeError")
    ELSE
    LET blocking_issues == Positions({i \in 1..Len(items) : IsBlockingIssue(items[i])})
        warning_issues == Positions({i \in 1..Len(items) : IsWarningIssue(items[i])})
        suggestion_issues == Positions({i \in 1..Len(items) : IsSuggestionIssue(items[i])})
    IN
    IF \E n \in 1..Len(blocking_issues) : ~BlockingEntryOk(items[blocking_issues[n]])
    THEN RenderRaise("TypeError")
    ELSE IF \E n \in 1..Len(warning_issues) :
                ~TitledEntryOk(items[warning_issues[n]], "Issue")
    THEN RenderRaise("TypeError")
    ELSE IF \E n \in 1..Len(suggestion_issues) :
                ~TitledEntryOk(items[suggestion_issues[n]], "Suggestion")
    THEN RenderRaise("TypeError")
    ELSE IF Truthy(positive) /\ ~Sliceable(positive) THEN RenderRaise("TypeError")
    ELSE IF Truthy(positive) /\ ~Joinable(FirstN(positive, PositiveShown))
    THEN RenderRaise("TypeError")
    ELSE IF ~IsStr(GetOr(summary, <<"overview">>, JStr(<<>>)))
    THEN RenderRaise("TypeError")
    ELSE Rendered([kind |-> "review",
                   verdict |-> IF approved THEN "APPROVED" ELSE "REQUEST_CHANGES",
                   blocking |-> blocking_issues,
                   warning |-> warning_issues,
                   suggestion |-> suggestion_issues,
                   hint |-> Truthy(issues)])

\* lines 287-402
format_interactive_output(result) ==
    IF Has(result, <<"error">>) THEN FormatError(result) ELSE FormatReview(result)

(***************************************************************************)
(* json.dumps: the encoder main uses for the machine-readable emission.     *)
(***************************************************************************)
RECURSIVE Digits(_)
Digits(n) ==
    IF n < 10 THEN <<DigitSyms[n + 1]>>
    ELSE Digits(n \div 10) \o <<DigitSyms[(n % 10) + 1]>>

RECURSIVE json_dumps(_)
RECURSIVE DumpItems(_, _)
DumpItems(parts, i) ==
    IF i > Len(parts) THEN <<>>
    ELSE (IF i > 1 THEN <<",", "\n">> ELSE <<>>) \o parts[i] \o DumpItems(parts, i + 1)
json_dumps(t) ==
    CASE IsNull(t) -> <<"null">>
      [] IsNum(t) -> Digits(t.v[1])
      [] IsStr(t) -> <<Quote>> \o t.v \o <<Quote>>
      [] IsArr(t) ->
            <<"[">> \o DumpItems([i \in 1..Len(t.v) |-> json_dumps(t.v[i])], 1) \o <<"]">>
      [] IsObj(t) ->
            <<"{">> \o DumpItems([i \in 1..Len(t.v) |->
                                    <<Quote>> \o t.v[i].key \o <<Quote, ":", " ">>
                                    \o json_dumps(t.v[i].val)], 1) \o <<"}">>

(***************************************************************************)
(* calculate_thinking_level.  The code text is described by what the        *)
(* function reads from it: the number of newline characters, the marker     *)
(* words that occur in it (in their original case) and the number of        *)
(* occurrences of 'class '.  The score is kept in units of 1/200 point, so  *)
(* that total_lines / 200 is exact.                                         *)
(***************************************************************************)
LinesPerPoint == 200
MaxLinePoints == 2
Point == LinesPerPoint
HalfPoint == LinesPerPoint \div 2
ClassMarkerLimit == 2

SecurityKeywords == {"password", "auth", "token", "secret", "encrypt", "sql", "query"}
\* str.lower() on the marker words of the model
lower(w) ==
    CASE w = "AUTH" -> "auth"
      [] w = "Password" -> "password"
      [] w = "Await" -> "await"
      [] w = "ASYNC" -> "async"
      [] w = ".MD" -> ".md"
      [] w = ".PY" -> ".py"
      [] OTHER -> w

\* a variant whose line term is not capped
complexity_score_uncapped(files, code_content) ==
    LET total_lines == code_content.newlines
        file_count == Len(files)
        has_security_code == \E w \in code_content.words : lower(w) \in SecurityKeywords
        has_async == "async" \in code_content.words \/ "await" \in code_content.words
        has_classes == code_content.class_markers > ClassMarkerLimit
    IN  total_lines
        + file_count * HalfPoint
        + (IF has_security_code THEN Point ELSE 0)
        + (IF has_async THEN HalfPoint ELSE 0)
        + (IF has_classes THEN HalfPoint ELSE 0)

\* lines 79-92: the score, in units of 1/200 point
complexity_score(files, code_content) ==
    LET total_lines == code_content.newlines
        file_count == Len(files)
        has_security_code == \E w \in code_content.words : lower(w) \in SecurityKeywords
        has_async == "async" \in code_content.words \/ "await" \in code_content.words
        has_classes == code_content.class_markers > ClassMarkerLimit
    IN  Min({total_lines, MaxLinePoints * LinesPerPoint})
        + file_count * HalfPoint
        + (IF has_security_code THEN Point ELSE 0)
        + (IF has_async THEN HalfPoint ELSE 0)
        + (IF has_classes THEN HalfPoint ELSE 0)

\* a variant whose thresholds are inclusive
LevelOfScoreInclusive(score) ==
    IF score <= Point + HalfPoint THEN "minimal"
    ELSE IF score <= 3 * Point THEN "medium"
    ELSE "high"

\* lines 95-100
LevelOfScore(score) ==
    IF score < Point + HalfPoint THEN "minimal"
    ELSE IF score < 3 * Point THEN "medium"
    ELSE "high"

calculate_thinking_level(files, code_content) ==
    LevelOfScore(complexity_score(files, code_content))

\* lines 245-246: the level given by the caller, or else the estimator's
effort_level(given, files, code_content) ==
    IF given = ""
    THEN [level |-> calculate_thinking_level(files, code_content), estimated |-> TRUE]
    ELSE [level |-> given, estimated |-> FALSE]

(***************************************************************************)
(* The files an invocation can be pointed at.  A path is described by what  *)
(* review_code asks about it: whether it exists, whether it is a regular    *)
(* file, its suffix, whether it decodes as UTF-8, its length, and the       *)
(* features of its content and of its name that the estimator reads.        *)
(***************************************************************************)
MaxContentLength == 50000
SkipExtensions == {".json", ".yaml", ".yml", ".toml", ".md", ".txt", ".lock", ".log"}

File(exists, is_file, suffix, readable, length, newlines, words, name_words, class_markers) ==
    [exists |-> exists, is_file |-> is_file, suffix |-> suffix, readable |-> readable,
     length |-> length, newlines |-> newlines, words |-> words,
     name_words |-> name_words, class_markers |-> class_markers]

Paths == {"main.py", "auth.py", "long.py", "big.py", "NOTES.MD", "ghost.py", "src",
          "latin1.py"}
FileSystem ==
    [p \in Paths |->
        CASE p = "main.py" -> File(TRUE, TRUE, ".py", TRUE, 300, 10, {}, {}, 0)
          [] p = "auth.py" -> File(TRUE, TRUE, ".py", TRUE, 4000, 150, {}, {"auth"}, 1)
          [] p = "long.py" -> File(TRUE, TRUE, ".py", TRUE, 20000, 400, {"async"}, {}, 3)
          [] p = "big.py" -> File(TRUE, TRUE, ".py", TRUE, 50001, 900, {"token"}, {}, 9)
          [] p = "NOTES.MD" -> File(TRUE, TRUE, ".MD", TRUE, 100, 5, {"Password"}, {}, 0)
          [] p = "ghost.py" -> File(FALSE, FALSE, ".py", FALSE, 0, 0, {}, {}, 0)
          [] p = "src" -> File(TRUE, FALSE, "", FALSE, 0, 0, {}, {}, 0)
          [] p = "latin1.py" -> File(TRUE, TRUE, ".py", FALSE, 0, 0, {}, {}, 0)]

\* a variant that compares the suffix as written, without lower()
SkippedCaseSensitive(file_path) ==
    LET path == FileSystem[file_path] IN
    \/ ~path.exists
    \/ ~path.is_file
    \/ path.suffix \in SkipExtensions

\* lines 219-222: the candidate is skipped without a trace
Skipped(file_path) ==
    LET path == FileSystem[file_path] IN
    \/ ~path.exists
    \/ ~path.is_file
    \/ lower(path.suffix) \in SkipExtensions

\* lines 224-237: what one surviving candidate adds to code_parts; only a
\* file that was read and is not too large enters valid_files
PartKind(file_path) ==
    LET path == FileSystem[file_path] IN
    IF ~path.readable THEN "error"
    ELSE IF path.length > MaxContentLength THEN "too_large"
    ELSE "code"

NoCode == [newlines |-> 0, words |-> {}, class_markers |-> 0]

\* the text of one part: its header line names the path; a code part adds
\* the fence lines and the numbered content
Part(file_path) ==
    LET path == FileSystem[file_path] IN
    IF PartKind(file_path) = "code"
    THEN [newlines |-> path.newlines + 3,
          words |-> path.words \cup path.name_words,
          class_markers |-> path.class_markers]
    ELSE [newlines |-> 1, words |-> path.name_words, class_markers |-> 0]

RECURSIVE ReadFiles(_, _, _)
\* lines 217-237: the loop over the candidates; acc is [valid_files, parts]
ReadFiles(files, i, acc) ==
    IF i > Len(files) THEN acc
    ELSE IF Skipped(files[i]) THEN ReadFiles(files, i + 1, acc)
    ELSE ReadFiles(files, i + 1,
            [valid_files |-> IF PartKind(files[i]) = "code"
                             THEN Append(acc.valid_files, files[i])
                             ELSE acc.valid_files,
             parts |-> Append(acc.parts, Part(files[i]))])

RECURSIVE JoinParts(_, _)
\* line 242: '\n\n'.join(code_parts)
JoinParts(parts, i) ==
    IF i > Len(parts) THEN NoCode
    ELSE LET rest == JoinParts(parts, i + 1) IN
         [newlines |-> parts[i].newlines + rest.newlines
                       + (IF i < Len(parts) THEN 2 ELSE 0),
          words |-> parts[i].words \cup rest.words,
          class_markers |-> parts[i].class_markers + rest.class_markers]

(***************************************************************************)
(* The collaborators of review_code.                                        *)
(***************************************************************************)
\* get_api_key: the environment variable first, then the GEMINI_API_KEY=
\* line of the .env file with its quotes stripped; "" stands for None and
\* for an empty value, which `if not api_key` treats alike
get_api_key(environ, dotenv) ==
    IF environ # "" THEN environ
    ELSE IF dotenv.exists /\ dotenv.has_line THEN dotenv.value
    ELSE ""

Environments == {"", "key"}
DotenvFiles ==
    { [exists |-> FALSE, has_line |-> FALSE, value |-> ""],
      [exists |-> TRUE, has_line |-> FALSE, value |-> ""],
      [exists |-> TRUE, has_line |-> TRUE, value |-> ""],
      [exists |-> TRUE, has_line |-> TRUE, value |-> "key"] }

\* ensure_genai_installed: the import succeeds, or pip is run and its exit
\* status decides
ensure_genai_installed(importable, pip_status) ==
    IF importable THEN TRUE ELSE pip_status = 0

\* lines 256-261
Temperature(thinking_level) ==
    IF thinking_level = "high" THEN "0.2"
    ELSE IF thinking_level = "minimal" THEN "0.5"
    ELSE "0.3"

ErrorResult(kind, message) ==
    JObj(<< [key |-> <<"error">>, val |-> Word(kind)],
            [key |-> <<"message">>, val |-> Word(message)] >>)

\* lines 281-284: the handler of every exception of the call and of the
\* normalizer
upper(w) == IF w = "api_key" THEN "API_KEY" ELSE w
HandleException(error_msg) ==
    IF (\E w \in error_msg : upper(w) = "API_KEY") \/ "401" \in error_msg
    THEN ErrorResult("INVALID_KEY", "Invalid API key")
    ELSE ErrorResult("API_ERROR", "error_msg")

\* lines 271-276
AttachMeta(result, valid_files, thinking_level, focus) ==
    IF Has(result, <<"error">>) THEN result
    ELSE Put(result, <<"meta">>,
             JObj(<< [key |-> <<"files">>,
                      val |-> JArr([i \in 1..Len(valid_files) |-> Word(valid_files[i])])],
                     [key |-> <<"thinking_level">>, val |-> Word(thinking_level)],
                     [key |-> <<"focus">>,
                      val |-> IF focus = "" THEN JNull ELSE Word(focus)] >>))

\* lines 483-492
ExitCode(result) ==
    IF IsWord(GetOr(result, <<"error">>, JNull), "NO_API_KEY") THEN 2
    ELSE IF IsWord(GetOr(result, <<"error">>, JNull), "NO_FILES") THEN 0
    ELSE IF Has(result, <<"error">>) THEN 1
    ELSE IF GetOr(GetOr(GetOr(result, <<"summary">>, JObj(<<>>)),
                        <<"stats">>, JObj(<<>>)),
                  <<"blocking">>, JNum(0)).v[1] > 0 THEN 3
    ELSE 0

(***************************************************************************)
(* Inputs: the texts a reply can be.  Documents are written out symbol by   *)
(* symbol, so that the decoder has to read them back.                       *)
(***************************************************************************)
Str(w) == <<Quote, w, Quote>>
Member(key, value) == Str(key) \o <<":", " ">> \o value
RECURSIVE Joined(_, _)
Joined(texts, i) ==
    IF i > Len(texts) THEN <<>>
    ELSE (IF i > 1 THEN <<",">> ELSE <<>>) \o texts[i] \o Joined(texts, i + 1)
Object(members) == <<"{">> \o Joined(members, 1) \o <<"}">>
Array(elements) == <<"[">> \o Joined(elements, 1) \o <<"]">>
Opt(cond, member) == IF cond THEN <<member>> ELSE <<>>
StrOrNull(w) == IF w = "null" THEN <<"null">> ELSE Str(w)

\* an issue as the model may write it: "" leaves the field out
Issue(id, severity, type, title, fix) ==
    [id |-> id, severity |-> severity, type |-> type, title |-> title, fix |-> fix]
IssueText(p) ==
    Object(Opt(p.id # "", Member("id", <<p.id>>))
           \o Opt(p.severity # "", Member("severity", Str(p.severity)))
           \o Opt(p.type # "", Member("type", Str(p.type)))
           \o Opt(p.title # "", Member("title", StrOrNull(p.title)))
           \o Opt(p.fix # "", Member("suggested_fix", StrOrNull(p.fix))))

SampleIssues ==
    { Issue("", "", "nitpick", "t", ""),
      Issue("2", "non-blocking", "issue", "t", ""),
      Issue("", "blocking", "issue", "t", "f"),
      Issue("", "non-blocking", "suggestion", "t", ""),
      Issue("", "blocking", "suggestion", "t", ""),
      Issue("", "blocking", "", "null", "") }

IssueLists(n) == UNION {[1..m -> SampleIssues] : m \in 0..n}
IssuesText(list) == Array([i \in 1..Len(list) |-> IssueText(list[i])])

\* the "issues" member: a list of issues, or a value of another shape
OddIssues ==
    { <<"null">>, <<"7">>, Str("ab"), Object(<<>>), Array(<< <<"1">> >>),
      Array(<< Array(<<Str("id")>>) >>) }
IssuesMembers(n) ==
    {<<>>} \cup {<<Member("issues", IssuesText(l))>> : l \in IssueLists(n)}
           \cup {<<Member("issues", o)>> : o \in OddIssues}

StatsText(b, w, s) ==
    Object(<<Member("blocking", <<b>>), Member("warning", <<w>>),
             Member("suggestion", <<s>>)>>)
\* the "summary" member: absent, well formed with wrong counts, without
\* stats, with stats or overview of another shape, of another shape itself,
\* or with fence delimiters inside its overview string
SummaryMembers ==
    { <<>>,
      <<Member("summary", Object(<<>>))>>,
      <<Member("summary", Object(<<Member("verdict", Str("approve")),
                                   Member("overview", Str("fine")),
                                   Member("stats", StatsText("5", "0", "1"))>>))>>,
      <<Member("summary", Object(<<Member("verdict", Str("request_changes")),
                                   Member("stats", Object(<<>>))>>))>>,
      <<Member("summary", Object(<<Member("stats", <<"null">>)>>))>>,
      <<Member("summary", Object(<<Member("overview", <<"null">>)>>))>>,
      <<Member("summary", <<"null">>)>>,
      <<Member("summary", Str("fine"))>>,
      <<Member("summary", Object(<<Member("overview",
                                          <<Quote, "see", Fence, "below", Quote>>)>>))>>,
      <<Member("summary", Object(<<Member("overview",
                                          <<Quote, Fence, "x", Fence, Quote>>)>>))>> }

\* valid JSON documents that are not objects
OddDocuments == { Array(<<>>), Array(<<Str("summary")>>), Str("summary"), <<"5">>, <<"null">> }
\* texts that are not JSON
NotJson == { <<>>, <<"not", " ", "json">>, <<"{", Quote, "issues", Quote>>,
             Object(<<>>) \o <<" ", "x">>, <<"0", "1">> }

Documents(n) ==
    {Object(s \o i) : s \in SummaryMembers, i \in IssuesMembers(n)} \cup OddDocuments

\* a document inside a fenced block: tagged, untagged, or tagged and
\* followed by prose and a second block
WrapStyles == {"tagged", "untagged", "several"}
Wrap(doc, style) ==
    CASE style = "tagged" -> <<Fence, Tag, "\n">> \o doc \o <<"\n", Fence>>
      [] style = "untagged" -> <<Fence>> \o doc \o <<Fence>>
      [] style = "several" ->
            <<"Here", " ", Fence, Tag, "\n">> \o doc
            \o <<"\n", Fence, "\n", "or", Fence, "{", "}", Fence>>

\* the replies of the remote model in an invocation
CallReplies ==
    { <<"not", " ", "json">>,
      Array(<<>>),
      Object(<<>>),
      Wrap(Object(<<Member("issues", IssuesText(<<Issue("", "blocking", "issue", "t", "f"),
                                                  Issue("", "non-blocking", "", "t", "")>>))>>),
           "tagged"),
      Object(<<Member("issues", IssuesText(<<Issue("", "blocking", "suggestion", "t", "")>>))>>),
      Object(<<Member("issues", IssuesText(<<Issue("", "blocking", "issue", "t", "null")>>))>>),
      Object(<<Member("issues", IssuesText(<<Issue("", "", "nitpick", "null", "")>>))>>),
      Object(<<Member("summary", Object(<<Member("verdict", Str("approve")),
                                          Member("stats", StatsText("3", "0", "0"))>>)),
               Member("issues", IssuesText(<<Issue("1", "non-blocking", "suggestion", "t", "")>>))>>),
      Object(<<Member("summary", Object(<<Member("overview", <<"null">>)>>))>>),
      Object(<<Member("error", Str("NO_API_KEY")),
               Member("issues", IssuesText(<<Issue("", "blocking", "issue", "t", "f")>>))>>),
      Object(<<Member("error", Str("NO_FILES"))>>),
      Object(<<Member("error", <<"null">>)>>) }

\* the messages of the exceptions the call can raise
CallErrors == { {"401"}, {"api_key"}, {"timeout"} }

(***************************************************************************)
(* State.  The first group is one invocation of main; the second is the     *)
(* normalizer and the renderer applied to a document; the third is the      *)
(* estimator applied to a code text.                                        *)
(***************************************************************************)
VARIABLES
    pc,              \* where the invocation is
    files,           \* args.files, split at the commas
    json_flag,       \* args.json
    think,           \* args.think; "" when not given
    focus,           \* args.focus; "" when not given
    installed,       \* ensure_genai_installed() returned True
    api_key,         \* what get_api_key() returned; "" for nothing
    valid_files,     \* review_code's valid_files
    code_content,    \* review_code's code_content
    thinking_level,  \* the level the call is configured with
    estimated,       \* calculate_thinking_level was called
    calls,           \* external calls issued
    temperature,     \* the temperature the call was configured with
    reply,           \* response.text
    norm,            \* the outcome of parse_json_response(response.text)
    result,          \* what review_code returned
    nresults,        \* how many times review_code returned
    output,          \* what main printed
    exit_code,       \* the exit status; -1 while running
    n_pc, n_doc, n_style, n_plain, n_fenced, n_again, n_report,
    e_pc, e_given, e_files, e_code, e_level, e_estimated

main_vars == <<pc, files, json_flag, think, focus, installed, api_key, valid_files,
               code_content, thinking_level, estimated, calls, temperature, reply,
               norm, result, nresults, output, exit_code>>
norm_vars == <<n_pc, n_doc, n_style, n_plain, n_fenced, n_again, n_report>>
est_vars == <<e_pc, e_given, e_files, e_code, e_level, e_estimated>>
vars == <<main_vars, norm_vars, est_vars>>

NoOutcome == [status |-> "none", exc |-> "", data |-> JNull]
NoOutput == [status |-> "none", exc |-> "", report |-> NoReport]
NoResult == JNull

FileLists == UNION {[1..n -> Paths] : n \in 0..MaxFiles}
\* --think and --focus as the command line gives them
ArgChoices ==
    { [think |-> "", focus |-> ""],
      [think |-> "", focus |-> "security"],
      [think |-> "minimal", focus |-> ""],
      [think |-> "medium", focus |-> "security"],
      [think |-> "high", focus |-> ""] }

MainIdle ==
    /\ pc = "idle" /\ files = <<>> /\ json_flag = FALSE /\ think = "" /\ focus = ""
    /\ installed = FALSE /\ api_key = "" /\ valid_files = <<>> /\ code_content = NoCode
    /\ thinking_level = "" /\ estimated = FALSE /\ calls = 0 /\ temperature = ""
    /\ reply = <<>> /\ norm = NoOutcome /\ result = NoResult /\ nresults = 0
    /\ output = NoOutput /\ exit_code = -1
NormIdle ==
    /\ n_pc = "idle" /\ n_doc = <<>> /\ n_style = "" /\ n_plain = NoOutcome
    /\ n_fenced = NoOutcome /\ n_again = NoOutcome /\ n_report = NoOutput
EstIdle ==
    /\ e_pc = "idle" /\ e_given = "" /\ e_files = <<>> /\ e_code = NoCode
    /\ e_level = "" /\ e_estimated = FALSE

(***************************************************************************)
(* One invocation of main.                                                  *)
(***************************************************************************)
Init ==
    /\ pc = "main"
    /\ files \in FileLists
    /\ json_flag \in BOOLEAN
    /\ \E args \in ArgChoices : think = args.think /\ focus = args.focus
    /\ installed = FALSE /\ api_key = "" /\ valid_files = <<>> /\ code_content = NoCode
    /\ thinking_level = "" /\ estimated = FALSE /\ calls = 0 /\ temperature = ""
    /\ reply = <<>> /\ norm = NoOutcome /\ result = NoResult /\ nresults = 0
    /\ output = NoOutput /\ exit_code = -1
    /\ NormIdle /\ EstIdle

\* review_code returns r to main
ReturnResult(r) ==
    /\ result' = r
    /\ nresults' = nresults + 1
    /\ pc' = "output"

\* lines 464-469
Main ==
    /\ pc = "main"
    /\ IF files = <<>>
       THEN /\ pc' = "exited"
            /\ exit_code' = 1
            /\ output' = [NoOutput EXCEPT !.status = "return",
                                          !.report.kind = "no_files_specified"]
       ELSE /\ pc' = "ensure_genai_installed"
            /\ UNCHANGED <<exit_code, output>>
    /\ UNCHANGED <<files, json_flag, think, focus, installed, api_key, valid_files,
                   code_content, thinking_level, estimated, calls, temperature, reply,
                   norm, result, nresults>>
    /\ UNCHANGED <<norm_vars, est_vars>>

\* lines 203-204
EnsureGenaiInstalled ==
    /\ pc = "ensure_genai_installed"
    /\ \E importable \in BOOLEAN, pip_status \in {0, 1} :
          /\ installed' = ensure_genai_installed(importable, pip_status)
          /\ IF installed'
             THEN pc' = "get_api_key" /\ UNCHANGED <<result, nresults>>
             ELSE ReturnResult(ErrorResult("INSTALL_FAILED", "Could not install google-genai"))
    /\ UNCHANGED <<files, json_flag, think, focus, api_key, valid_files, code_content,
                   thinking_level, estimated, calls, temperature, reply, norm, output,
                   exit_code>>
    /\ UNCHANGED <<norm_vars, est_vars>>

\* lines 208-210
GetApiKey ==
    /\ pc = "get_api_key"
    /\ \E environ \in Environments, dotenv \in DotenvFiles :
          /\ api_key' = get_api_key(environ, dotenv)
          /\ IF api_key' = ""
             THEN ReturnResult(ErrorResult("NO_API_KEY", "GEMINI_API_KEY not found"))
             ELSE pc' = "read_files" /\ UNCHANGED <<result, nresults>>
    /\ UNCHANGED <<files, json_flag, think, focus, installed, valid_files, code_content,
                   thinking_level, estimated, calls, temperature, reply, norm, output,
                   exit_code>>
    /\ UNCHANGED <<norm_vars, est_vars>>

\* lines 213-242
CollectFiles ==
    /\ pc = "read_files"
    /\ LET read == ReadFiles(files, 1, [valid_files |-> <<>>, parts |-> <<>>]) IN
          /\ valid_files' = read.valid_files
          /\ IF read.valid_files = <<>>
             THEN /\ ReturnResult(ErrorResult("NO_FILES", "No valid code files to review"))
                  /\ UNCHANGED code_content
             ELSE /\ code_content' = JoinParts(read.parts, 1)
                  /\ pc' = "thinking_level"
                  /\ UNCHANGED <<result, nresults>>
    /\ UNCHANGED <<files, json_flag, think, focus, installed, api_key, thinking_level,
                   estimated, calls, temperature, reply, norm, output, exit_code>>
    /\ UNCHANGED <<norm_vars, est_vars>>

\* lines 245-246
ChooseThinkingLevel ==
    /\ pc = "thinking_level"
    /\ LET chosen == effort_level(think, valid_files, code_content) IN
          /\ thinking_level' = chosen.level
          /\ estimated' = chosen.estimated
    /\ pc' = "call"
    /\ UNCHANGED <<files, json_flag, think, focus, installed, api_key, valid_files,
                   code_content, calls, temperature, reply, norm, result, nresults,
                   output, exit_code>>
    /\ UNCHANGED <<norm_vars, est_vars>>

\* lines 252-267, the call returns
CallReturns ==
    /\ pc = "call"
    /\ calls' = calls + 1
    /\ temperature' = Temperature(thinking_level)
    /\ \E text \in CallReplies : reply' = text
    /\ pc' = "parse"
    /\ UNCHANGED <<files, json_flag, think, focus, installed, api_key, valid_files,
                   code_content, thinking_level, estimated, norm, result, nresults,
                   output, exit_code>>
    /\ UNCHANGED <<norm_vars, est_vars>>

\* a variant that issues the call a second time after a first failure
CallFailsRetry ==
    /\ pc = "call"
    /\ calls <= 1
    /\ calls' = calls + 1
    /\ temperature' = Temperature(thinking_level)
    /\ IF calls = 0
       THEN UNCHANGED <<pc, result, nresults>>
       ELSE \E error_msg \in CallErrors : ReturnResult(HandleException(error_msg))
    /\ UNCHANGED <<files, json_flag, think, focus, installed, api_key, valid_files,
                   code_content, thinking_level, estimated, reply, norm, output,
                   exit_code>>
    /\ UNCHANGED <<norm_vars, est_vars>>

\* lines 252-267 and 280-284, the call raises
CallFails ==
    /\ pc = "call"
    /\ calls' = calls + 1
    /\ temperature' = Temperature(thinking_level)
    /\ \E error_msg \in CallErrors : ReturnResult(HandleException(error_msg))
    /\ UNCHANGED <<files, json_flag, think, focus, installed, api_key, valid_files,
                   code_content, thinking_level, estimated, reply, norm, output,
                   exit_code>>
    /\ UNCHANGED <<norm_vars, est_vars>>

\* lines 269-284: an exception of the normalizer reaches the handler of the
\* call; its message names neither API_KEY nor 401
Normalize ==
    /\ pc = "parse"
    /\ norm' = parse_json_response(reply)
    /\ IF Raised(norm')
       THEN ReturnResult(HandleException({norm'.exc}))
       ELSE ReturnResult(AttachMeta(norm'.data, valid_files, thinking_level, focus))
    /\ UNCHANGED <<files, json_flag, think, focus, installed, api_key, valid_files,
                   code_content, thinking_level, estimated, calls, temperature, reply,
                   output, exit_code>>
    /\ UNCHANGED <<norm_vars, est_vars>>

\* lines 474-480; an exception of the renderer is not caught, and the
\* interpreter exits with status 1
Output ==
    /\ pc = "output"
    /\ IF json_flag /\ ~Has(result, <<"error">>)
       THEN /\ output' = [NoOutput EXCEPT !.status = "return", !.report.kind = "json"]
            /\ pc' = "exit"
            /\ UNCHANGED exit_code
       ELSE /\ output' = format_interactive_output(result)
            /\ IF Raised(output')
               THEN pc' = "exited" /\ exit_code' = 1
               ELSE pc' = "exit" /\ UNCHANGED exit_code
    /\ UNCHANGED <<files, json_flag, think, focus, installed, api_key, valid_files,
                   code_content, thinking_level, estimated, calls, temperature, reply,
                   norm, result, nresults>>
    /\ UNCHANGED <<norm_vars, est_vars>>

\* lines 483-492
Exit ==
    /\ pc = "exit"
    /\ exit_code' = ExitCode(result)
    /\ pc' = "exited"
    /\ UNCHANGED <<files, json_flag, think, focus, installed, api_key, valid_files,
                   code_content, thinking_level, estimated, calls, temperature, reply,
                   norm, result, nresults, output>>
    /\ UNCHANGED <<norm_vars, est_vars>>

Next ==
    \/ Main
    \/ EnsureGenaiInstalled
    \/ GetApiKey
    \/ CollectFiles
    \/ ChooseThinkingLevel
    \/ CallReturns
    \/ CallFails
    \/ Normalize
    \/ Output
    \/ Exit

Spec == Init /\ [][Next]_vars

(***************************************************************************)
(* The normalizer and the renderer applied to one document: as it is, in a  *)
(* fenced block, once more to its own result, and rendered.                 *)
(***************************************************************************)
InitNorm ==
    /\ MainIdle /\ EstIdle
    /\ n_pc = "given"
    /\ n_doc \in Documents(MaxIssues) \cup NotJson
    /\ n_style = "" /\ n_plain = NoOutcome /\ n_fenced = NoOutcome
    /\ n_again = NoOutcome /\ n_report = NoOutput

NormalizePlain ==
    /\ n_pc = "given"
    /\ n_plain' = parse_json_response(n_doc)
    /\ n_pc' = "plain"
    /\ UNCHANGED <<n_doc, n_style, n_fenced, n_again, n_report, main_vars, est_vars>>

Renormalize ==
    /\ n_pc = "plain"
    /\ Returned(n_plain)
    /\ n_again' = parse_json_response(json_dumps(n_plain.data))
    /\ n_pc' = "again"
    /\ UNCHANGED <<n_doc, n_style, n_plain, n_fenced, n_report, main_vars, est_vars>>

Render ==
    /\ n_pc = "again"
    /\ n_report' = format_interactive_output(n_plain.data)
    /\ n_pc' = "rendered"
    /\ UNCHANGED <<n_doc, n_style, n_plain, n_fenced, n_again, main_vars, est_vars>>

NormalizeFenced ==
    /\ n_pc = "rendered" \/ (n_pc = "plain" /\ Raised(n_plain))
    /\ \E style \in WrapStyles :
          /\ n_style' = style
          /\ n_fenced' = parse_json_response(Wrap(n_doc, style))
    /\ n_pc' = "fenced"
    /\ UNCHANGED <<n_doc, n_plain, n_again, n_report, main_vars, est_vars>>

NextNorm == NormalizePlain \/ Renormalize \/ Render \/ NormalizeFenced

SpecNorm == InitNorm /\ [][NextNorm]_vars

(***************************************************************************)
(* The choice of the effort level applied to one code text.                 *)
(***************************************************************************)
WordSets ==
    { {}, {"password"}, {"AUTH"}, {"async"}, {"Await"}, {"await", "sql"} }
CodeTexts ==
    [newlines : 0..MaxLines, words : WordSets, class_markers : 0..MaxClassMarkers]
Levels == {"minimal", "medium", "high"}

InitEst ==
    /\ MainIdle /\ NormIdle
    /\ e_pc = "given"
    /\ e_given \in {""} \cup Levels
    /\ e_files \in {[i \in 1..n |-> "f"] : n \in 0..MaxFileCount}
    /\ e_code \in CodeTexts
    /\ e_level = ""
    /\ e_estimated = FALSE

Estimate ==
    /\ e_pc = "given"
    /\ LET chosen == effort_level(e_given, e_files, e_code) IN
          /\ e_level' = chosen.level
          /\ e_estimated' = chosen.estimated
    /\ e_pc' = "done"
    /\ UNCHANGED <<e_given, e_files, e_code, main_vars, norm_vars>>

NextEst == Estimate

SpecEst == InitEst /\ [][NextEst]_vars

(***************************************************************************)
(* Properties.                                                              *)
(***************************************************************************)
\* the decoded reply, for the properties that speak of what the model sent
Decoded(text) == json_loads(StripFence(text))
\* the normalizer took its success path on the text
NormSuccess(text, r) == Decoded(text).ok /\ Returned(r)
IsJsonParseError(d) ==
    /\ IsObj(d)
    /\ IsWord(GetOr(d, <<"error">>, JNull), "JSON_PARSE_ERROR")
    /\ Has(d, <<"message">>) /\ Has(d, <<"raw_response">>)
SuccessShaped(d) ==
    /\ IsObj(d)
    /\ Has(d, <<"summary">>) /\ Has(d, <<"issues">>) /\ Has(d, <<"positive_aspects">>)
NormalizedPlain == n_pc \in {"plain", "again", "rendered", "fenced"}

\* C1: for every raw reply text, also one that decodes to JSON of any shape,
\* the normalizer returns a success-shaped record or a json_parse_error
\* record, and never raises.
C1_NormalizerNeverRaises ==
    NormalizedPlain =>
        /\ Returned(n_plain)
        /\ IsJsonParseError(n_plain.data) \/ SuccessShaped(n_plain.data)

\* the number of issues whose field has the given value, counted as a set
\* of positions
NumberWith(items, field, w) ==
    Cardinality({i \in 1..Len(items) : IsObj(items[i])
                                        /\ Has(items[i], <<field>>)
                                        /\ Get(items[i], <<field>>) = Word(w)})
StatsOf(d) == Get(Get(d, <<"summary">>), <<"stats">>)
StatsMatchIssues(d) ==
    LET items == Items(Get(d, <<"issues">>))
        stats == StatsOf(d)
    IN  /\ Get(stats, <<"blocking">>) = JNum(NumberWith(items, "severity", "blocking"))
        /\ Get(stats, <<"warning">>) = JNum(NumberWith(items, "severity", "non-blocking"))
        /\ Get(stats, <<"suggestion">>) = JNum(NumberWith(items, "type", "suggestion"))

SomeIssueLacksId(text) ==
    LET sent == Decoded(text).val IN
    /\ Decoded(text).ok
    /\ IsObj(sent) /\ Has(sent, <<"issues">>) /\ IsArr(Get(sent, <<"issues">>))
    /\ LET items == Get(sent, <<"issues">>).v IN
          /\ \A i \in 1..Len(items) : IsObj(items[i])
          /\ \E i \in 1..Len(items) : ~Has(items[i], <<"id">>)

\* C3: for every reply whose issues lack id on some issues (the others may
\* carry an id of the model's), after the backfill every issue has an id and
\* the ids are 1..N in input order, N the number of issues; so they are
\* unique.
C3_BackfilledIdsContiguous ==
    (NormalizedPlain /\ SomeIssueLacksId(n_doc) /\ Returned(n_plain)) =>
        LET items == Get(n_plain.data, <<"issues">>).v IN
        \A i \in 1..Len(items) :
            Has(items[i], <<"id">>) /\ Get(items[i], <<"id">>) = JNum(i)

InSeq(x, seq) == \E n \in 1..Len(seq) : seq[n] = x
Occurrences(x, seq) == Cardinality({n \in 1..Len(seq) : seq[n] = x})
\* the group the partitioning rule gives an issue: A for severity blocking,
\* else B for severity non-blocking and a type other than suggestion, else
\* C for type suggestion
GroupByPrecedence(issue) ==
    LET severity == GetOr(issue, <<"severity">>, JNull)
        type == GetOr(issue, <<"type">>, JNull)
    IN  IF severity = Word("blocking") THEN "A"
        ELSE IF severity = Word("non-blocking") /\ type # Word("suggestion") THEN "B"
        ELSE IF type = Word("suggestion") THEN "C"
        ELSE "none"

\* an issue that carries one of the two severities
HasSeverity(issue) ==
    IsObj(issue) /\ GetOr(issue, <<"severity">>, JNull)
                       \in {Word("blocking"), Word("non-blocking")}

\* C4: in the interactive report every issue of a success result (here:
\* every issue that carries a severity, whatever its type) is listed in
\* exactly one of the three groups, the one the precedence rule gives it; no
\* issue is listed in two groups.
C4_ExactlyOneGroup ==
    (n_pc \in {"rendered", "fenced"} /\ NormSuccess(n_doc, n_plain)
       /\ Returned(n_report) /\ n_report.report.kind = "review") =>
        LET items == Items(Get(n_plain.data, <<"issues">>))
            rep == n_report.report
        IN  \A i \in 1..Len(items) :
               HasSeverity(items[i]) =>
                  /\ Occurrences(i, rep.blocking) + Occurrences(i, rep.warning)
                       + Occurrences(i, rep.suggestion) = 1
                  /\ InSeq(i, rep.blocking) <=> GroupByPrecedence(items[i]) = "A"
                  /\ InSeq(i, rep.warning) <=> GroupByPrecedence(items[i]) = "B"
                  /\ InSeq(i, rep.suggestion) <=> GroupByPrecedence(items[i]) = "C"

ErrorKind(d) == IF Has(d, <<"error">>) THEN Get(d, <<"error">>) ELSE JNull
HasBlockingIssue(d) ==
    LET items == Items(GetOr(d, <<"issues">>, JArr(<<>>)))
    IN  NumberWith(items, "severity", "blocking") > 0
\* the exit status the exit-code table gives a result
StatusByResult(d) ==
    IF ErrorKind(d) = Word("NO_API_KEY") THEN 2
    ELSE IF ErrorKind(d) = Word("NO_FILES") THEN 0
    ELSE IF Has(d, <<"error">>) THEN 1
    ELSE IF HasBlockingIssue(d) THEN 3
    ELSE 0

\* C5: the exit status is a function of the result: 2 for the no_api_key
\* error, 0 for the no_files error, 1 for every other error, 3 for a success
\* with a blocking issue and 0 for a success without one, whatever the
\* verdict and the display mode.
C5_ExitStatusByResult ==
    (pc = "exited" /\ nresults = 1) => exit_code = StatusByResult(result)

\* no candidate survives filtering: each is missing, not a regular file, or
\* has an extension of the exclusion set
ExcludedExtensions ==
    {".json", ".yaml", ".yml", ".toml", ".md", ".txt", ".lock", ".log"}
NoSurvivor(list) ==
    \A i \in 1..Len(list) :
        LET path == FileSystem[list[i]] IN
        \/ ~path.exists
        \/ ~path.is_file
        \/ lower(path.suffix) \in ExcludedExtensions
Reported == pc \in {"output", "exit", "exited"} /\ nresults = 1


\* C6 as stated: whenever no candidate of a non-empty list survives
\* filtering, the result is no_files and no external call is made, whatever
\* the state of the credential source and of the client library.
C6_NoSurvivorGivesNoFiles ==
    (Reported /\ files # <<>> /\ NoSurvivor(files)) =>
        /\ ErrorKind(result) = Word("NO_FILES")
        /\ calls = 0

\* C6 as amended: whenever no candidate of a non-empty list survives
\* filtering, no external call is made, and the result is no_files when the
\* client library is available and a credential was found; it is
\* install_failed when the library is unavailable and no_api_key when the
\* library is available and no credential was found.
C6_NoSurvivorAfterChecks ==
    (Reported /\ files # <<>> /\ NoSurvivor(files)) =>
        /\ calls = 0
        /\ ErrorKind(result) =
              IF ~installed THEN Word("INSTALL_FAILED")
              ELSE IF api_key = "" THEN Word("NO_API_KEY")
              ELSE Word("NO_FILES")

\* a list of a file with an excluded extension and a missing path, with the
\* library available and a credential found, was reported as no_files
C6_Witness ==
    /\ pc = "exited"
    /\ files = <<"NOTES.MD", "ghost.py">>
    /\ installed /\ api_key # ""
    /\ ErrorKind(result) = Word("NO_FILES")
    /\ calls = 0
    /\ exit_code = 0

\* the score of the claim, in units of 1/200: min(newlines / 200, 2.0)
\* + 0.5 per file + 1.0 for a security keyword + 0.5 for an async marker
\* + 0.5 for more than two class markers
ClaimedScore(file_count, code) ==
    (IF code.newlines < 400 THEN code.newlines ELSE 400)
    + 100 * file_count
    + (IF \E w \in code.words : lower(w) \in
             {"password", "auth", "token", "secret", "encrypt", "sql", "query"}
       THEN 200 ELSE 0)
    + (IF code.words \cap {"async", "await"} # {} THEN 100 ELSE 0)
    + (IF code.class_markers > 2 THEN 100 ELSE 0)
ClaimedLevel(score) ==
    CASE score < 300 -> "minimal"
      [] score >= 300 /\ score < 600 -> "medium"
      [] score >= 600 -> "high"

\* C7: the effort level used is the caller's level whenever one is given,
\* and the estimator is then not run; otherwise it is the estimator's:
\* minimal for a score below 1.5, medium from 1.5 to below 3.0, high from
\* 3.0 on; exactly one level results.
C7_EffortLevel ==
    e_pc = "done" =>
        /\ e_level \in Levels
        /\ e_given # "" => (e_level = e_given /\ ~e_estimated)
        /\ e_given = "" => /\ e_estimated
                           /\ e_level = ClaimedLevel(ClaimedScore(Len(e_files), e_code))

\* no level was given and the score is exactly 1.5: two files, 100
\* newlines, no marker; the level is medium
C7_Witness ==
    /\ e_pc = "done"
    /\ e_given = ""
    /\ Len(e_files) = 2 /\ e_code.newlines = 100
    /\ e_code.words = {} /\ e_code.class_markers = 0
    /\ e_level = "medium"
    /\ e_estimated

\* a text drawn from exactly one file, with no security keyword, no async
\* marker and no more than two class markers; no level given
PlainSingleFile ==
    /\ e_pc = "done"
    /\ e_given = ""
    /\ Len(e_files) = 1
    /\ \A w \in e_code.words : lower(w) \notin SecurityKeywords
    /\ e_code.words \cap {"async", "await"} = {}
    /\ e_code.class_markers <= 2

\* C8 as stated: for such a text the estimator returns high when the text
\* has 1000 lines and minimal when it has fewer than 300 lines.
C8_HighAt1000MinimalBelow300 ==
    PlainSingleFile =>
        /\ e_code.newlines = 1000 => e_level = "high"
        /\ e_code.newlines < 300 => e_level = "minimal"

\* C8 as amended: for such a text the estimator returns medium when the
\* text has 1000 lines (score 2.0 + 0.5) and minimal when it has fewer than
\* 200 lines.
C8_MediumAt1000MinimalBelow200 ==
    PlainSingleFile =>
        /\ e_code.newlines = 1000 => e_level = "medium"
        /\ e_code.newlines < 200 => e_level = "minimal"

\* the estimator was run on a 1000-line text of one file without markers
C8_Witness ==
    /\ PlainSingleFile
    /\ e_code.newlines = 1000
    /\ e_level = "medium"

\* a valid JSON document, not wrapped in anything
ValidDocument(text) == json_loads(text).ok /\ strip(text) = text

\* two outcomes of the normalizer with the same structure: the same record,
\* or two json_parse_error records (their excerpts may differ)
SameStructure(a, b) ==
    \/ a = b
    \/ /\ Returned(a) /\ Returned(b)
       /\ IsJsonParseError(a.data) /\ IsJsonParseError(b.data)

\* C9: for every valid JSON document that the normalizer gives a result
\* for, also one whose strings contain fence delimiters, normalizing it as
\* it is and normalizing it inside a fenced block (tagged or not, or
\* followed by further blocks) give the same structural result.
C9_FencedSameAsPlain ==
    (n_pc = "fenced" /\ ValidDocument(n_doc) /\ Returned(n_plain)) =>
        SameStructure(n_plain, n_fenced)


\* C10: the external call is issued at most once and never again after it
\* failed or its reply failed normalization; it is issued only after the
\* dependency check, the credential lookup and the file filtering have
\* succeeded; an invocation in which the call returned or failed produces
\* exactly one result.
C10_SingleCallSingleResult ==
    /\ calls <= 1
    /\ nresults <= 1
    /\ calls = 1 => (installed /\ api_key # "" /\ valid_files # <<>>)
    /\ (calls = 1 /\ pc \in {"output", "exit", "exited"}) => nresults = 1
    /\ (calls = 1 /\ pc = "parse") => nresults = 0
    /\ pc \in {"main", "ensure_genai_installed", "get_api_key", "read_files",
               "thinking_level", "call"} => calls = 0

\* the call returned a reply that is not JSON; the invocation ended with
\* the one json_parse_error result and one call
C10_Witness ==
    /\ pc = "exited"
    /\ calls = 1
    /\ nresults = 1
    /\ ErrorKind(result) = Word("JSON_PARSE_ERROR")
    /\ exit_code = 1

\* the call returned a reply that decodes to a JSON object, the normalizer
\* and the output step both returned, and the invocation ended
DecodedObjectHandled ==
    /\ pc = "exited"
    /\ calls = 1
    /\ Decoded(reply).ok /\ IsObj(Decoded(reply).val)
    /\ Returned(norm)
    /\ Returned(output)

\* C11: for every reply that decodes to a JSON object, whatever its
\* top-level keys, the result is handled as a success result: the meta
\* record is attached, the output is the classified report or the JSON
\* text, and the exit status is 0 or 3.
C11_DecodedObjectIsSuccess ==
    DecodedObjectHandled =>
        /\ Has(result, <<"meta">>)
        /\ output.report.kind \in {"review", "json"}
        /\ exit_code \in {0, 3}

=============================================================================
